---- MODULE Spec2Model ----
(***************************************************************************)
(* ETF Macro Agent Dashboard (src/app.py): the data acquisition pass       *)
(* (fetch_fred_series, fetch_tp10, the tolerant load loop), the resolver   *)
(* latest_value, the tile computation and the signal classifier.           *)
(*                                                                         *)
(* Floating point numbers are fixed-point integers in units of 1/Scale,    *)
(* wrapped in a record that carries the not-a-number flag, so that the     *)
(* IEEE rule "every comparison with NaN is false" is modelled explicitly.  *)
(***************************************************************************)
EXTENDS Integers, Sequences, FiniteSets, TLC

\* ------------------------------------------------------------------ bounds
\* Longest configured list CFG["series"]["fred"] that is explored.
MaxSeries == 2
\* Most data rows in one CSV body returned by FRED.
MaxRows == 2
\* Most non-blank lines in one body returned by the NY Fed.
MaxLines == 3
\* Most rows of a table handed to latest_value in the resolver check.
MaxTable == 3

\* ------------------------------------------------------------------ floats
Scale == 100 * 100

Num(x) == [nan |-> FALSE, v |-> x]
NaN == [nan |-> TRUE, v |-> 0]

isna(a) == a.nan
notna(a) == ~a.nan

\* a * k for a float a and a literal integer k
Mul(a, k) == IF a.nan THEN NaN ELSE Num(a.v * k)
\* a / k for a float a and a literal integer k
Div(a, k) == IF a.nan THEN NaN ELSE Num(a.v \div k)
\* a - b
Sub(a, b) == IF a.nan \/ b.nan THEN NaN ELSE Num(a.v - b.v)

\* Python float comparison  a <op> k : false as soon as a is not-a-number.
Cmp(a, op, k) ==
    /\ ~a.nan
    /\ CASE op = ">=" -> a.v >= k
         [] op = "<=" -> a.v <= k
         [] op = "<"  -> a.v < k
         [] op = ">"  -> a.v > k

\* ------------------------------------------------------------------ dates
\* pd.NaT, the coerced value of an unparsable date
NaT == 0
\* Python None, the date latest_value returns for an absent series
None == 0 - 1

\* pd.to_datetime(cell, errors="coerce")
to_datetime(cell) ==
    CASE cell = "2024-01-02" -> 1
      [] cell = "2024-01-03" -> 2
      [] cell = "2024-01-04" -> 3
      [] OTHER -> NaT

\* pd.to_numeric(cell, errors="coerce")
to_numeric(cell) ==
    CASE cell = "4.2"  -> Num(42000)
      [] cell = "3.9"  -> Num(39000)
      [] cell = "0.4"  -> Num(4000)
      [] cell = "52.0" -> Num(520000)
      [] OTHER -> NaN

\* ------------------------------------------------------------------ sequences
HasDateCell(row) == row.Date # NaT
HasValueCell(row) == notna(row.Value)

\* out.dropna(subset=["Date"]): the rows whose Date is not NaT, in order
dropna_Date(df) == SelectSeq(df, HasDateCell)

\* a merge that forgets to drop the rows without a value
dropna_Value_keep(df) == df

\* .dropna(subset=["Value"]): the rows whose Value is not NaN, in order
dropna_Value(df) == SelectSeq(df, HasValueCell)

RECURSIVE Concat(_)
\* pd.concat(frames, ignore_index=True)
Concat(fs) == IF fs = <<>> THEN <<>> ELSE Head(fs) \o Concat(Tail(fs))

SeqsUpTo(S, n) == UNION {[1..k -> S] : k \in 0..n}

Range(s) == {s[i] : i \in DOMAIN s}

\* ------------------------------------------------------------------ state
VARIABLES
    CFG,          \* the loaded configuration: [fred: list of series ids, nyfed_tp10: flag]
    TH,           \* CFG["tiles"], the thresholds
    pc,           \* position of the script
    sid_i,        \* index in CFG.fred of the series being loaded
    series_id,    \* argument of the running fetch_fred_series call
    url_i,        \* index of the URL being tried by the running fetch
    attempt,      \* attempt number on that URL (fetch_fred_series)
    last_err,     \* last_err of the running fetch
    requests,     \* the HTTP requests made by the running fetch, in order
    ret,          \* how the last fetch call ended
    frames,       \* frames
    fetch_errors, \* fetch_errors
    data,         \* the unified table
    ui,           \* what the page has shown: st.error / st.warning / tiles / signal table
    ind,          \* the resolved indicators y10, y2, ..., wti and y10_date
    dec,          \* y10d, y2d, y3md, tipsd, tp10d, curve_bps
    tiles,        \* the tiles with their colours
    rows,         \* the signal rows
    lv_df,        \* resolver check: the table handed to latest_value
    lv_name,      \* resolver check: the name handed to latest_value
    lv_out        \* resolver check: what latest_value returned

vars == <<CFG, TH, pc, sid_i, series_id, url_i, attempt, last_err, requests, ret,
          frames, fetch_errors, data, ui, ind, dec, tiles, rows, lv_df, lv_name, lv_out>>

fetchVars == <<series_id, url_i, attempt, last_err, requests, ret>>
loadVars == <<sid_i, frames, fetch_errors>>
renderVars == <<data, ind, dec, tiles, rows>>
lvVars == <<lv_df, lv_name, lv_out>>

\* ------------------------------------------------------------------ fetch_fred_series
\* the series ids the script resolves from FRED (lines 158-166)
FredIds == {"DGS10", "DGS2", "DGS3MO", "DFII10", "DTWEXBGS", "NAPM", "BAMLH0A0HYM2", "DCOILWTICO"}

\* a fetch that does not retry
Attempts_once == 2 - 1

\* range(2): attempts per URL
Attempts == 2

\* a fetch that knows the primary URL only
urls_primary_only(sid) == << <<"downloaddata", sid>> >>

\* urls, the two URLs of a series in the order they are tried
urls(sid) == << <<"downloaddata", sid>>, <<"fredgraph", sid>> >>

\* cells a FRED body can hold in a date column and in a value column
DateCells == {"2024-01-02", "n/a"}
ValueCells == {"4.2", "."}

IsDateHeader(col) == col \in {"DATE", "observation_date"}

\* header rows a body can have
Layouts(sid) == { <<"DATE", "VALUE">>, <<"observation_date", sid>>,
                  <<sid, "DATE">>, <<"DATE">> }

RowsOf(cols) ==
    { r \in [1..Len(cols) -> DateCells \cup ValueCells] :
        \A i \in 1..Len(cols) :
            r[i] \in (IF IsDateHeader(cols[i]) THEN DateCells ELSE ValueCells) }

\* what requests.get can give for one request
FredResponses(sid) ==
    { [kind |-> "timeout"], [kind |-> "http_error"] }
    \cup UNION { { [kind |-> "body", cols |-> cols, rows |-> rs] :
                     rs \in SeqsUpTo(RowsOf(cols), MaxRows) } : cols \in Layouts(sid) }

ColIndex(cols, name) == CHOOSE i \in 1..Len(cols) : cols[i] = name /\ \A j \in 1..(i-1) : cols[j] # name

Failed(e) == [ok |-> FALSE, err |-> e]
Parsed(f) == [ok |-> TRUE, frame |-> f]

\* the try block of fetch_fred_series for one response
TryFred(sid, resp) ==
    IF resp.kind = "timeout" THEN Failed("ConnectionError")
    ELSE IF resp.kind = "http_error" THEN Failed("HTTPError")
    ELSE
      LET cols == resp.cols
          date_col == IF "DATE" \in Range(cols) THEN "DATE"
                      ELSE IF "observation_date" \in Range(cols) THEN "observation_date"
                      ELSE cols[1]
      IN IF sid \notin Range(cols) /\ Len(cols) < 2 THEN Failed("IndexError")
         ELSE
           LET val_col == IF sid \in Range(cols) THEN sid ELSE cols[2]
               di == ColIndex(cols, date_col)
               vi == ColIndex(cols, val_col)
               out == [k \in 1..Len(resp.rows) |->
                          [Date  |-> to_datetime(resp.rows[k][di]),
                           Value |-> to_numeric(resp.rows[k][vi]),
                           Name  |-> sid]]
           IN Parsed(dropna_Date(out))

NoRet == [status |-> "none"]
Returned(f) == [status |-> "returned", frame |-> f]
\* RuntimeError(f"Failed to fetch {name}: {last_err}")
Raised(name, e) == [status |-> "raised", failed |-> name, last |-> e]

\* every way the try block can end for a series, over all responses
FredSeen == [sid \in FredIds |-> { TryFred(sid, resp) : resp \in FredResponses(sid) }]

\* one pass through the body of the inner loop: request, parse, return or except
FredAttempt ==
    /\ pc = "in_fred"
    /\ url_i <= Len(urls(series_id))
    /\ \E o \in FredSeen[series_id] :
         LET url == urls(series_id)[url_i]
         IN IF o.ok
            THEN /\ requests' = Append(requests, [url |-> url, ok |-> TRUE, frame |-> o.frame])
                 /\ ret' = Returned(o.frame)
                 /\ pc' = "fred_ret"
                 /\ UNCHANGED <<url_i, attempt, last_err>>
            ELSE /\ requests' = Append(requests, [url |-> url, ok |-> FALSE])
                 /\ last_err' = o.err
                 /\ IF attempt < Attempts
                    THEN attempt' = attempt + 1 /\ url_i' = url_i
                    ELSE attempt' = 1 /\ url_i' = url_i + 1
                 /\ UNCHANGED <<ret, pc>>
    /\ UNCHANGED <<CFG, TH, series_id, loadVars, renderVars, ui, lvVars>>

\* both loops are exhausted
FredRaise ==
    /\ pc = "in_fred"
    /\ url_i > Len(urls(series_id))
    /\ ret' = Raised(series_id, last_err)
    /\ pc' = "fred_ret"
    /\ UNCHANGED <<CFG, TH, series_id, url_i, attempt, last_err, requests,
                   loadVars, renderVars, ui, lvVars>>

\* ------------------------------------------------------------------ fetch_tp10
url_candidates == << "newyorkfed.org/medialibrary/ACMTP.csv",
                     "newyorkfed.org/medialibrary/ACMTP.csv?download=true",
                     "newyorkfed.org/research/ACMTP.csv",
                     "nyfed.org/medialibrary/ACMTP.csv" >>

\* lines a NY Fed body can hold
TPLines == { "  ", "Source: ACM model", "Date of release 2024", "TP10 estimates",
             "Date,TP10", "DATE,ACMTP10",
             "2024-01-02,0.4", "n/a,0.4", "2024-01-03,." }

\* ln.strip() is empty
IsBlank(ln) == ln \in {"", "  "}
\* "date" in ln.lower()
HasDate(ln) == ln \in {"Date of release 2024", "Date,TP10", "DATE,ACMTP10"}
\* "tp10" in ln.lower()
HasTP10(ln) == ln \in {"TP10 estimates", "Date,TP10", "DATE,ACMTP10"}

\* the comma separated fields of a line, as pd.read_csv splits it
Fields(ln) ==
    CASE ln = "Date,TP10"      -> <<"Date", "TP10">>
      [] ln = "DATE,ACMTP10"   -> <<"DATE", "ACMTP10">>
      [] ln = "2024-01-02,0.4" -> <<"2024-01-02", "0.4">>
      [] ln = "n/a,0.4"        -> <<"n/a", "0.4">>
      [] ln = "2024-01-03,."   -> <<"2024-01-03", ".">>
      [] OTHER -> <<ln>>

\* a cell of a parsed row; a row shorter than the header is padded with missing cells
Cell(fields, i) == IF i <= Len(fields) THEN fields[i] ELSE ""

NotBlank(ln) == ~IsBlank(ln)

\* [ln.strip() for ln in text.splitlines() if ln.strip()]
NonBlank(lines) == SelectSeq(lines, NotBlank)

TPResponses ==
    { [kind |-> "timeout"], [kind |-> "http_error"] }
    \cup { [kind |-> "body", lines |-> ls] : ls \in SeqsUpTo(TPLines, MaxLines) }

\* next(i for i, ln in enumerate(lines) if ...), 0 for StopIteration
HeaderIndex(lines) ==
    IF \E i \in DOMAIN lines : HasDate(lines[i]) /\ HasTP10(lines[i])
    THEN CHOOSE i \in DOMAIN lines :
            /\ HasDate(lines[i]) /\ HasTP10(lines[i])
            /\ \A j \in 1..(i-1) : ~(HasDate(lines[j]) /\ HasTP10(lines[j]))
    ELSE 0

\* the try block of fetch_tp10 for one response
TryTP10(resp) ==
    IF resp.kind = "timeout" THEN Failed("ConnectionError")
    ELSE IF resp.kind = "http_error" THEN Failed("HTTPError")
    ELSE
      LET lines == NonBlank(resp.lines)
          hdr_idx == HeaderIndex(lines)
      IN IF hdr_idx = 0 THEN Failed("StopIteration")
         ELSE
           LET cols == Fields(lines[hdr_idx])
               body == SubSeq(lines, hdr_idx + 1, Len(lines))
           IN IF "Date" \notin Range(cols) \/ "TP10" \notin Range(cols) THEN Failed("KeyError")
              ELSE
                LET di == ColIndex(cols, "Date")
                    vi == ColIndex(cols, "TP10")
                    out == [k \in 1..Len(body) |->
                               [Date  |-> to_datetime(Cell(Fields(body[k]), di)),
                                Value |-> to_numeric(Cell(Fields(body[k]), vi)),
                                Name  |-> "TP10"]]
                IN Parsed(dropna_Date(out))

\* some line of the body carries both the date marker and the TP10 marker
HasHeader(resp) ==
    /\ resp.kind = "body"
    /\ \E i \in DOMAIN resp.lines : HasDate(resp.lines[i]) /\ HasTP10(resp.lines[i])

\* every way the try block can end, over all responses, with whether the response
\* had a header line
TPSeen == { [o |-> TryTP10(resp), hdr |-> HasHeader(resp)] : resp \in TPResponses }

\* a fetch that tries the same candidate again after a failure
TPAttempt_retry ==
    /\ pc = "in_tp10"
    /\ url_i <= Len(url_candidates)
    /\ Len(requests) < 2 * Len(url_candidates)
    /\ \E seen \in TPSeen :
         LET url == url_candidates[url_i]
             o == seen.o
         IN IF o.ok
            THEN /\ requests' = Append(requests, [url |-> url, ok |-> TRUE, frame |-> o.frame])
                 /\ ret' = Returned(o.frame)
                 /\ pc' = "tp10_ret"
                 /\ UNCHANGED <<url_i, last_err>>
            ELSE /\ requests' = Append(requests, [url |-> url, ok |-> FALSE])
                 /\ last_err' = o.err
                 /\ url_i' = IF Len(requests) % 2 = 1 THEN url_i + 1 ELSE url_i
                 /\ UNCHANGED <<ret, pc>>
    /\ UNCHANGED <<CFG, TH, series_id, attempt, loadVars, renderVars, ui, lvVars>>

\* one pass through the loop body: request, find the header, parse, return or except
TPAttempt ==
    /\ pc = "in_tp10"
    /\ url_i <= Len(url_candidates)
    /\ \E seen \in TPSeen :
         LET url == url_candidates[url_i]
             o == seen.o
         IN IF o.ok
            THEN /\ requests' = Append(requests, [url |-> url, ok |-> TRUE, frame |-> o.frame])
                 /\ ret' = Returned(o.frame)
                 /\ pc' = "tp10_ret"
                 /\ UNCHANGED <<url_i, last_err>>
            ELSE /\ requests' = Append(requests, [url |-> url, ok |-> FALSE])
                 /\ last_err' = o.err
                 /\ url_i' = url_i + 1
                 /\ UNCHANGED <<ret, pc>>
    /\ UNCHANGED <<CFG, TH, series_id, attempt, loadVars, renderVars, ui, lvVars>>

\* the loop is exhausted
TPRaise ==
    /\ pc = "in_tp10"
    /\ url_i > Len(url_candidates)
    /\ ret' = Raised("TP10", last_err)
    /\ pc' = "tp10_ret"
    /\ UNCHANGED <<CFG, TH, series_id, url_i, attempt, last_err, requests,
                   loadVars, renderVars, ui, lvVars>>

\* ------------------------------------------------------------------ configuration
\* series ids CFG["series"]["fred"] can list
AllFred == << "DGS10", "DGS2", "DGS3MO", "DFII10", "DTWEXBGS", "NAPM", "BAMLH0A0HYM2", "DCOILWTICO" >>

Configs == { [fred |-> SubSeq(AllFred, 1, n), nyfed_tp10 |-> b] : n \in 0..MaxSeries, b \in BOOLEAN }

\* a number of the configuration file, in fixed point
Pt(n) == n * Scale
\* a whole number as a float
Pt0(n) == Num(n * Scale)

\* CFG["tiles"]: yields as decimal fractions, spreads and slopes in basis points
THConfigs ==
    { [ y10_green_max |-> 400, y10_yellow_max |-> 450,
        tips_green_max |-> 150, tips_yellow_max |-> 200,
        tp10_green_max |-> 50, tp10_yellow_max |-> 100,
        dxy_green_max |-> Pt(102), dxy_yellow_max |-> Pt(105),
        pmi_green_min |-> Pt(50), pmi_yellow_min |-> Pt(48),
        hyoas_green_max_bps |-> Pt(350), hyoas_yellow_max_bps |-> Pt(450),
        curve_green_min_bps |-> Pt(50), curve_yellow_min_bps |-> Pt(0),
        wti_green_min |-> Pt(70), wti_yellow_min |-> Pt(60) ] }

NoUI == [error |-> FALSE, warning |-> <<>>]

\* ------------------------------------------------------------------ load all data
\* the call has returned or raised: its locals are gone
FetchDone ==
    /\ series_id' = "None"
    /\ url_i' = 1
    /\ attempt' = 1
    /\ last_err' = "None"
    /\ requests' = <<>>
    /\ ret' = NoRet

\* for sid in CFG["series"]["fred"]: enter fetch_fred_series(sid)
LoadFredCall ==
    /\ pc = "load_fred"
    /\ sid_i <= Len(CFG.fred)
    /\ series_id' = CFG.fred[sid_i]
    /\ url_i' = 1
    /\ attempt' = 1
    /\ last_err' = "None"
    /\ requests' = <<>>
    /\ ret' = NoRet
    /\ pc' = "in_fred"
    /\ UNCHANGED <<CFG, TH, loadVars, renderVars, ui, lvVars>>

\* frames.append(fetch_fred_series(sid))
LoadFredAppend ==
    /\ pc = "fred_ret"
    /\ ret.status = "returned"
    /\ frames' = Append(frames, ret.frame)
    /\ sid_i' = sid_i + 1
    /\ pc' = "load_fred"
    /\ FetchDone
    /\ UNCHANGED <<CFG, TH, fetch_errors, renderVars, ui, lvVars>>

\* a pass that gives up at the first series that fails
LoadFredExcept_abort ==
    /\ pc = "fred_ret"
    /\ ret.status = "raised"
    /\ fetch_errors' = Append(fetch_errors, [name |-> CFG.fred[sid_i], failed |-> ret.failed, last |-> ret.last])
    /\ sid_i' = sid_i + 1
    /\ pc' = "check"
    /\ FetchDone
    /\ UNCHANGED <<CFG, TH, frames, renderVars, ui, lvVars>>

\* except Exception as e: fetch_errors.append(f"{sid}: {e}")
LoadFredExcept ==
    /\ pc = "fred_ret"
    /\ ret.status = "raised"
    /\ fetch_errors' = Append(fetch_errors, [name |-> CFG.fred[sid_i], failed |-> ret.failed, last |-> ret.last])
    /\ sid_i' = sid_i + 1
    /\ pc' = "load_fred"
    /\ FetchDone
    /\ UNCHANGED <<CFG, TH, frames, renderVars, ui, lvVars>>

\* if CFG["series"].get("nyfed_tp10", True): enter fetch_tp10()
LoadTP10Call ==
    /\ pc = "load_fred"
    /\ sid_i > Len(CFG.fred)
    /\ CFG.nyfed_tp10
    /\ series_id' = "TP10"
    /\ url_i' = 1
    /\ last_err' = "None"
    /\ requests' = <<>>
    /\ ret' = NoRet
    /\ pc' = "in_tp10"
    /\ UNCHANGED <<CFG, TH, attempt, loadVars, renderVars, ui, lvVars>>

\* the term premium series is switched off
LoadTP10Skip ==
    /\ pc = "load_fred"
    /\ sid_i > Len(CFG.fred)
    /\ ~CFG.nyfed_tp10
    /\ pc' = "check"
    /\ UNCHANGED <<CFG, TH, fetchVars, loadVars, renderVars, ui, lvVars>>

\* frames.append(fetch_tp10())
LoadTP10Append ==
    /\ pc = "tp10_ret"
    /\ ret.status = "returned"
    /\ frames' = Append(frames, ret.frame)
    /\ pc' = "check"
    /\ FetchDone
    /\ UNCHANGED <<CFG, TH, sid_i, fetch_errors, renderVars, ui, lvVars>>

\* except Exception as e: fetch_errors.append(f"TP10: {e}")
LoadTP10Except ==
    /\ pc = "tp10_ret"
    /\ ret.status = "raised"
    /\ fetch_errors' = Append(fetch_errors, [name |-> "TP10", failed |-> ret.failed, last |-> ret.last])
    /\ pc' = "check"
    /\ FetchDone
    /\ UNCHANGED <<CFG, TH, sid_i, frames, renderVars, ui, lvVars>>

\* a render that shows the error but does not stop
StopNoData_continue ==
    /\ pc = "check"
    /\ frames = <<>>
    /\ ui' = [ui EXCEPT !.error = TRUE]
    /\ pc' = "resolve"
    /\ UNCHANGED <<CFG, TH, fetchVars, loadVars, renderVars, lvVars>>

\* if not frames: st.error(...); st.stop()
StopNoData ==
    /\ pc = "check"
    /\ frames = <<>>
    /\ ui' = [ui EXCEPT !.error = TRUE]
    /\ pc' = "stopped"
    /\ UNCHANGED <<CFG, TH, fetchVars, loadVars, renderVars, lvVars>>

\* data = pd.concat(frames).dropna(subset=["Value"]); st.warning if fetch_errors
Merge ==
    /\ pc = "check"
    /\ frames # <<>>
    /\ data' = dropna_Value(Concat(frames))
    /\ ui' = [ui EXCEPT !.warning = fetch_errors]
    /\ pc' = "resolve"
    /\ UNCHANGED <<CFG, TH, fetchVars, loadVars, ind, dec, tiles, rows, lvVars>>

\* ------------------------------------------------------------------ helpers
\* the positions of the rows of df_all with that name: sub = df_all[df_all["Name"] == name]
SubRows(df_all, name) == { i \in DOMAIN df_all : df_all[i].Name = name }

\* a latest_value that takes the last row of the name without sorting by date
latest_value_unsorted(df_all, name) ==
    LET sub == SubRows(df_all, name)
    IN IF sub = {} THEN { [value |-> NaN, date |-> None] }
       ELSE { [value |-> df_all[i].Value, date |-> df_all[i].Date] :
                i \in { k \in sub : \A j \in sub : j <= k } }

\* latest_value(df_all, name): every (value, date) the call can return.  sort_values
\* is not a stable sort, so any row with the greatest date can come last.
latest_value(df_all, name) ==
    LET sub == SubRows(df_all, name)
    IN IF sub = {} THEN { [value |-> NaN, date |-> None] }
       ELSE { [value |-> df_all[i].Value, date |-> df_all[i].Date] :
                i \in { k \in sub : \A j \in sub : df_all[j].Date <= df_all[k].Date } }

\* a tile condition  lambda v: v/div <op> k ; op "true" is  lambda v: True
Cond(c, v) == IF c.op = "true" THEN TRUE ELSE Cmp(Div(v, c.div), c.op, c.k)

\* color_from_rule(val, green_cond, yellow_cond)
color_from_rule(val, green_cond, yellow_cond) ==
    IF isna(val) THEN "#EEE"
    ELSE IF Cond(green_cond, val) THEN "#C6EFCE"
    ELSE IF Cond(yellow_cond, val) THEN "#FFEB9C"
    ELSE "#FFC7CE"

\* to_decimal(x)
to_decimal(x) == IF isna(x) THEN NaN ELSE IF x.v > Scale THEN Div(x, 100) ELSE x

\* ------------------------------------------------------------------ compute macro tiles
\* y10, y10_date = latest_value(data, "DGS10") ... wti, _ = latest_value(data, "DCOILWTICO")
Resolve ==
    /\ pc = "resolve"
    /\ \E r10 \in latest_value(data, "DGS10"), r2 \in latest_value(data, "DGS2"),
          r3m \in latest_value(data, "DGS3MO"), rtips \in latest_value(data, "DFII10"),
          rtp \in latest_value(data, "TP10"), rdxy \in latest_value(data, "DTWEXBGS"),
          rpmi \in latest_value(data, "NAPM"), roas \in latest_value(data, "BAMLH0A0HYM2"),
          rwti \in latest_value(data, "DCOILWTICO") :
         ind' = [y10 |-> r10.value, y10_date |-> r10.date, y2 |-> r2.value, y3m |-> r3m.value,
                 tips |-> rtips.value, tp10 |-> rtp.value, dxy |-> rdxy.value,
                 pmi |-> rpmi.value, oas |-> roas.value, wti |-> rwti.value]
    /\ pc' = "decimal"
    /\ UNCHANGED <<CFG, TH, fetchVars, loadVars, data, dec, tiles, rows, ui, lvVars>>

\* y10d, y2d, y3md, tipsd, tp10d = map(to_decimal, ...); curve_bps = ...
Decimals ==
    /\ pc = "decimal"
    /\ LET y10d == to_decimal(ind.y10)
           y2d == to_decimal(ind.y2)
       IN dec' = [y10d |-> y10d, y2d |-> y2d, y3md |-> to_decimal(ind.y3m),
                  tipsd |-> to_decimal(ind.tips), tp10d |-> to_decimal(ind.tp10),
                  curve_bps |-> IF notna(y10d) /\ notna(y2d)
                                THEN Mul(Sub(y10d, y2d), 10000) ELSE NaN]
    /\ pc' = "tiles"
    /\ UNCHANGED <<CFG, TH, fetchVars, loadVars, data, ind, tiles, rows, ui, lvVars>>

Always == [op |-> "true", div |-> 1, k |-> 0]
Rule(div, op, k) == [op |-> op, div |-> div, k |-> k]
Pct(x) == IF notna(x) THEN Mul(x, 100) ELSE NaN

\* tiles = [(label, value, green_fn, yellow_fn), ...]
TileList ==
    << [label |-> "10Y UST (%)", val |-> Pct(dec.y10d),
        green |-> Rule(100, "<", TH.y10_green_max), yellow |-> Rule(100, "<", TH.y10_yellow_max)],
       [label |-> "2Y UST (%)", val |-> Pct(dec.y2d), green |-> Always, yellow |-> Always],
       [label |-> "3M Bill (%)", val |-> Pct(dec.y3md), green |-> Always, yellow |-> Always],
       [label |-> "10Y TIPS (%)", val |-> Pct(dec.tipsd),
        green |-> Rule(100, "<", TH.tips_green_max), yellow |-> Rule(100, "<", TH.tips_yellow_max)],
       [label |-> "Term Prem (%)", val |-> Pct(dec.tp10d),
        green |-> Rule(100, "<", TH.tp10_green_max), yellow |-> Rule(100, "<", TH.tp10_yellow_max)],
       [label |-> "Broad $ Index", val |-> ind.dxy,
        green |-> Rule(1, "<=", TH.dxy_green_max), yellow |-> Rule(1, "<=", TH.dxy_yellow_max)],
       [label |-> "PMI (ISM)", val |-> ind.pmi,
        green |-> Rule(1, ">=", TH.pmi_green_min), yellow |-> Rule(1, ">=", TH.pmi_yellow_min)],
       [label |-> "HY OAS (bps)", val |-> Pct(ind.oas),
        green |-> Rule(1, "<=", TH.hyoas_green_max_bps), yellow |-> Rule(1, "<=", TH.hyoas_yellow_max_bps)],
       [label |-> "10s-2s (bps)", val |-> dec.curve_bps,
        green |-> Rule(1, ">=", TH.curve_green_min_bps), yellow |-> Rule(1, ">=", TH.curve_yellow_min_bps)],
       [label |-> "WTI ($)", val |-> ind.wti,
        green |-> Rule(1, ">=", TH.wti_green_min), yellow |-> Rule(1, ">=", TH.wti_yellow_min)] >>

\* for i, (label, val, green_fn, yellow_fn) in enumerate(tiles): bg = color_from_rule(...)
Tiles ==
    /\ pc = "tiles"
    /\ tiles' = [i \in 1..Len(TileList) |->
                   [label |-> TileList[i].label, val |-> TileList[i].val,
                    bg |-> color_from_rule(TileList[i].val, TileList[i].green, TileList[i].yellow)]]
    /\ pc' = "signals"
    /\ UNCHANGED <<CFG, TH, fetchVars, loadVars, data, ind, dec, rows, ui, lvVars>>

\* ------------------------------------------------------------------ ETF mapping & signals
ETF_ROWS == << "XLE", "XLB", "XLI", "XLF", "XLK", "XLV", "XLY", "XLU", "XLP", "XLC",
               "XLRE", "GLD", "RUT", "YINN", "SOXL", "FAS", "BNKU", "DRN", "NAIL", "RETL",
               "TMF", "BITX", "ETHU", "DFEN", "EUAD" >>

\* the module-level scalars signal_for reads; "oas100" is the expression (oas*100)
Scalar(x) ==
    CASE x = "pmi" -> ind.pmi
      [] x = "dxy" -> ind.dxy
      [] x = "wti" -> ind.wti
      [] x = "oas100" -> Mul(ind.oas, 100)
      [] x = "curve_bps" -> dec.curve_bps
      [] x = "y10d" -> dec.y10d
      [] x = "tipsd" -> dec.tipsd
      [] x = "tp10d" -> dec.tp10d

\* one comparison  x <op> k
T(x, op, k) == [x |-> x, op |-> op, k |-> k]
\* a and b and ... / a or b or ...
And(ts) == [op |-> "and", terms |-> ts]
Or(ts) == [op |-> "or", terms |-> ts]
\* "SIG" if pred else ...
If(p, sig) == [pred |-> p, sig |-> sig]

\* the body of signal_for for one ticker: the conditional expression as a cascade
\* of (predicate, signal) pairs and the final else
RuleOf(tk) ==
    CASE tk = "XLE" ->
           [cascade |-> << If(And(<<T("pmi", ">=", TH.pmi_green_min), T("dxy", "<=", TH.dxy_green_max),
                                    T("wti", ">=", TH.wti_green_min)>>), "GREEN"),
                           If(And(<<T("pmi", ">=", TH.pmi_yellow_min)>>), "YELLOW") >>,
            else |-> "RED"]
      [] tk = "XLB" ->
           [cascade |-> << If(And(<<T("pmi", ">=", TH.pmi_green_min), T("dxy", "<=", TH.dxy_green_max),
                                    T("oas100", "<", TH.hyoas_yellow_max_bps)>>), "GREEN"),
                           If(And(<<T("pmi", ">=", TH.pmi_yellow_min)>>), "YELLOW") >>,
            else |-> "RED"]
      [] tk = "XLI" ->
           [cascade |-> << If(And(<<T("pmi", ">=", TH.pmi_green_min),
                                    T("curve_bps", ">=", TH.curve_yellow_min_bps)>>), "GREEN"),
                           If(And(<<T("pmi", ">=", TH.pmi_yellow_min)>>), "YELLOW") >>,
            else |-> "RED"]
      [] tk \in {"XLF", "FAS", "BNKU"} ->
           [cascade |-> << If(And(<<T("curve_bps", ">=", TH.curve_green_min_bps),
                                    T("oas100", "<=", TH.hyoas_yellow_max_bps)>>), "GREEN"),
                           If(And(<<T("curve_bps", ">=", TH.curve_yellow_min_bps),
                                    T("oas100", "<=", TH.hyoas_yellow_max_bps)>>), "YELLOW") >>,
            else |-> "RED"]
      [] tk \in {"XLK", "XLC", "SOXL"} ->
           [cascade |-> << If(And(<<T("tipsd", "<", TH.tips_green_max),
                                    T("pmi", ">=", TH.pmi_yellow_min)>>), "GREEN"),
                           If(And(<<T("tipsd", "<", TH.tips_yellow_max)>>), "YELLOW") >>,
            else |-> "RED"]
      [] tk \in {"XLV", "XLP"} ->
           [cascade |-> << If(Or(<<T("pmi", "<", TH.pmi_yellow_min),
                                   T("oas100", ">=", TH.hyoas_yellow_max_bps)>>), "GREEN") >>,
            else |-> "YELLOW"]
      [] tk \in {"XLY", "RETL"} ->
           [cascade |-> << If(And(<<T("pmi", ">=", TH.pmi_green_min),
                                    T("oas100", "<", TH.hyoas_green_max_bps),
                                    T("y10d", "<", TH.y10_green_max)>>), "GREEN"),
                           If(And(<<T("pmi", ">=", TH.pmi_yellow_min)>>), "YELLOW") >>,
            else |-> "RED"]
      [] tk = "XLU" ->
           [cascade |-> << If(Or(<<T("y10d", "<", TH.y10_green_max),
                                   T("oas100", ">=", TH.hyoas_yellow_max_bps)>>), "GREEN") >>,
            else |-> "YELLOW"]
      [] tk \in {"XLRE", "DRN"} ->
           [cascade |-> << If(And(<<T("y10d", "<", TH.y10_green_max), T("tp10d", "<", TH.tp10_green_max),
                                    T("oas100", "<", TH.hyoas_yellow_max_bps)>>), "GREEN"),
                           If(And(<<T("y10d", "<", TH.y10_yellow_max),
                                    T("oas100", "<", TH.hyoas_yellow_max_bps + Pt(50))>>), "YELLOW") >>,
            else |-> "RED"]
      [] tk = "GLD" ->
           [cascade |-> << If(And(<<T("tipsd", "<", 160), T("dxy", "<=", TH.dxy_green_max)>>), "GREEN"),
                           If(Or(<<T("tipsd", "<", TH.tips_yellow_max),
                                   T("dxy", "<=", TH.dxy_yellow_max)>>), "YELLOW") >>,
            else |-> "RED"]
      [] tk = "RUT" ->
           [cascade |-> << If(And(<<T("pmi", ">=", TH.pmi_green_min),
                                    T("curve_bps", ">=", TH.curve_green_min_bps),
                                    T("oas100", "<", TH.hyoas_yellow_max_bps)>>), "GREEN"),
                           If(And(<<T("pmi", ">=", TH.pmi_yellow_min),
                                    T("oas100", "<", TH.hyoas_yellow_max_bps)>>), "YELLOW") >>,
            else |-> "RED"]
      [] tk \in {"NAIL"} ->
           [cascade |-> << If(And(<<T("y10d", "<", TH.y10_green_max),
                                    T("pmi", ">=", TH.pmi_green_min)>>), "GREEN"),
                           If(And(<<T("y10d", "<", TH.y10_yellow_max)>>), "YELLOW") >>,
            else |-> "RED"]
      [] tk = "TMF" ->
           [cascade |-> << If(And(<<T("y10d", "<", TH.y10_green_max), T("tp10d", "<", TH.tp10_green_max),
                                    T("tipsd", "<", TH.tips_green_max)>>), "GREEN"),
                           If(Or(<<T("y10d", "<", TH.y10_yellow_max),
                                   T("tp10d", "<", TH.tp10_yellow_max)>>), "YELLOW") >>,
            else |-> "RED"]
      [] tk \in {"BITX", "ETHU"} ->
           [cascade |-> << If(And(<<T("tipsd", "<", 200), T("dxy", "<=", TH.dxy_yellow_max)>>), "GREEN") >>,
            else |-> "YELLOW"]
      [] tk \in {"DFEN", "EUAD"} ->
           [cascade |-> << If(Or(<<T("pmi", ">=", TH.pmi_yellow_min),
                                   T("oas100", "<", Pt(550))>>), "GREEN") >>,
            else |-> "YELLOW"]
      [] tk = "YINN" ->
           [cascade |-> << If(And(<<T("pmi", ">=", TH.pmi_green_min),
                                    T("dxy", "<=", TH.dxy_green_max)>>), "GREEN"),
                           If(And(<<T("pmi", ">=", TH.pmi_yellow_min)>>), "YELLOW") >>,
            else |-> "RED"]
      [] OTHER -> [cascade |-> <<>>, else |-> "SETUP"]

\* one comparison of a predicate
EvalTerm(t) == Cmp(Scalar(t.x), t.op, t.k)

\* a predicate of signal_for: a conjunction or a disjunction of comparisons
EvalPred(p) ==
    IF p.op = "and" THEN \A i \in DOMAIN p.terms : EvalTerm(p.terms[i])
    ELSE \E i \in DOMAIN p.terms : EvalTerm(p.terms[i])

\* a signal_for whose RED branches return a misspelt signal
signal_for_typo(tk) ==
    LET r == RuleOf(tk)
        hit == { i \in DOMAIN r.cascade : EvalPred(r.cascade[i].pred) }
    IN IF hit = {} THEN (IF r.else = "RED" THEN "RED " ELSE r.else)
       ELSE r.cascade[CHOOSE i \in hit : \A j \in hit : i <= j].sig

\* signal_for(tk): the first tier whose predicate holds, else the final else
signal_for(tk) ==
    LET r == RuleOf(tk)
        hit == { i \in DOMAIN r.cascade : EvalPred(r.cascade[i].pred) }
    IN IF hit = {} THEN r.else
       ELSE r.cascade[CHOOSE i \in hit : \A j \in hit : i <= j].sig

\* rows = [(tk, signal_for(tk), note) for tk, note in ETF_ROWS]; etf_df = ...
Signals ==
    /\ pc = "signals"
    /\ rows' = [i \in 1..Len(ETF_ROWS) |-> [Ticker |-> ETF_ROWS[i], Signal |-> signal_for(ETF_ROWS[i])]]
    /\ pc' = "done"
    /\ UNCHANGED <<CFG, TH, fetchVars, loadVars, data, ind, dec, tiles, ui, lvVars>>

\* ------------------------------------------------------------------ the render
Init ==
    /\ CFG \in Configs
    /\ TH \in THConfigs
    /\ pc = "load_fred"
    /\ sid_i = 1
    /\ series_id = "None"
    /\ url_i = 1
    /\ attempt = 1
    /\ last_err = "None"
    /\ requests = <<>>
    /\ ret = NoRet
    /\ frames = <<>>
    /\ fetch_errors = <<>>
    /\ data = <<>>
    /\ ui = NoUI
    /\ ind = <<>>
    /\ dec = <<>>
    /\ tiles = <<>>
    /\ rows = <<>>
    /\ lv_df = <<>>
    /\ lv_name = "None"
    /\ lv_out = <<>>

Next ==
    \/ LoadFredCall
    \/ FredAttempt
    \/ FredRaise
    \/ LoadFredAppend
    \/ LoadFredExcept
    \/ LoadTP10Call
    \/ LoadTP10Skip
    \/ TPAttempt
    \/ TPRaise
    \/ LoadTP10Append
    \/ LoadTP10Except
    \/ StopNoData
    \/ Merge
    \/ Resolve
    \/ Decimals
    \/ Tiles
    \/ Signals

Spec == Init /\ [][Next]_vars

\* ------------------------------------------------------------------ the render, from a merged table
\* values a series can have as its only observation; the empty set member <<>> is "no data"
Levels(name) ==
    CASE name = "DGS10"        -> { Num(300), Num(42000), Num(47000) }
      [] name = "DGS2"         -> { Num(39000), Num(45000) }
      [] name = "DGS3MO"       -> { Num(40000) }
      [] name = "DFII10"       -> { Num(12000), Num(15500), Num(22000) }
      [] name = "TP10"         -> { Num(30), Num(15000) }
      [] name = "DTWEXBGS"     -> { Pt0(100), Pt0(104), Pt0(110) }
      [] name = "NAPM"         -> { Pt0(52), Pt0(49), Pt0(45) }
      [] name = "BAMLH0A0HYM2" -> { Num(31000), Num(40000), Num(60000) }
      [] name = "DCOILWTICO"   -> { Pt0(78), Pt0(55) }

AllNames == AllFred \o << "TP10" >>

\* the frames one fetch per series can have returned: no row or one row each
FrameOf(name) == { <<>> } \cup { << [Date |-> 1, Value |-> v, Name |-> name] >> : v \in Levels(name) }

InitSignal ==
    /\ CFG = [fred |-> AllFred, nyfed_tp10 |-> TRUE]
    /\ TH \in THConfigs
    /\ pc = "resolve"
    /\ sid_i = Len(AllFred) + 1
    /\ series_id = "None"
    /\ url_i = 1
    /\ attempt = 1
    /\ last_err = "None"
    /\ requests = <<>>
    /\ ret = NoRet
    /\ \E f1 \in FrameOf(AllNames[1]), f2 \in FrameOf(AllNames[2]), f3 \in FrameOf(AllNames[3]),
          f4 \in FrameOf(AllNames[4]), f5 \in FrameOf(AllNames[5]), f6 \in FrameOf(AllNames[6]),
          f7 \in FrameOf(AllNames[7]), f8 \in FrameOf(AllNames[8]), f9 \in FrameOf(AllNames[9]) :
         frames = <<f1, f2, f3, f4, f5, f6, f7, f8, f9>>
    /\ fetch_errors = <<>>
    /\ data = dropna_Value(Concat(frames))
    /\ ui = NoUI
    /\ ind = <<>>
    /\ dec = <<>>
    /\ tiles = <<>>
    /\ rows = <<>>
    /\ lv_df = <<>>
    /\ lv_name = "None"
    /\ lv_out = <<>>

NextSignal ==
    \/ Resolve
    \/ Decimals
    \/ Tiles
    \/ Signals

SpecSignal == InitSignal /\ [][NextSignal]_vars

\* ------------------------------------------------------------------ the resolver alone
LvNames == { "DGS10", "DGS2" }
LvRows == { [Date |-> d, Value |-> v, Name |-> n] : d \in {1, 2}, v \in { Num(42000), Num(39000) }, n \in LvNames }

\* latest_value(df_all, name) applied to one table
Latest ==
    /\ pc = "latest"
    /\ lv_out' \in latest_value(lv_df, lv_name)
    /\ pc' = "latest_done"
    /\ UNCHANGED <<CFG, TH, fetchVars, loadVars, renderVars, ui, lv_df, lv_name>>

InitLatest ==
    /\ CFG = [fred |-> <<>>, nyfed_tp10 |-> FALSE]
    /\ TH \in THConfigs
    /\ pc = "latest"
    /\ sid_i = 1
    /\ series_id = "None"
    /\ url_i = 1
    /\ attempt = 1
    /\ last_err = "None"
    /\ requests = <<>>
    /\ ret = NoRet
    /\ frames = <<>>
    /\ fetch_errors = <<>>
    /\ data = <<>>
    /\ ui = NoUI
    /\ ind = <<>>
    /\ dec = <<>>
    /\ tiles = <<>>
    /\ rows = <<>>
    /\ lv_df \in SeqsUpTo(LvRows, MaxTable)
    /\ lv_name \in LvNames
    /\ lv_out = <<>>

NextLatest == Latest

SpecLatest == InitLatest /\ [][NextLatest]_vars

\* ================================================================== properties
InFred == pc \in {"in_fred", "fred_ret"}
InTP10 == pc \in {"in_tp10", "tp10_ret"}
Loading == pc \in {"load_fred", "in_fred", "fred_ret", "in_tp10", "tp10_ret"}
AfterCheck == pc \in {"stopped", "resolve", "decimal", "tiles", "signals", "done"}
AfterMerge == pc \in {"resolve", "decimal", "tiles", "signals", "done"}

AllFailedSoFar == \A i \in DOMAIN requests : ~requests[i].ok
SomeOk == \E i \in DOMAIN requests : requests[i].ok

\* C1: fetch_fred_series raises only when all four attempts (two on each URL) have
\* failed; when some attempt succeeded the call returns the frame of that attempt
\* and carries no error.
C1_RaisesOnlyWhenAllFailed ==
    pc = "fred_ret" =>
        /\ ret.status \in {"returned", "raised"}
        /\ ret.status = "raised" =>
              /\ Len(requests) = 4
              /\ AllFailedSoFar
              /\ {requests[i].url[1] : i \in DOMAIN requests} = {"downloaddata", "fredgraph"}
        /\ SomeOk =>
              /\ ret.status = "returned"
              /\ \E i \in DOMAIN requests : requests[i].ok /\ ret = Returned(requests[i].frame)

\* a transient failure followed by a success: the call has returned a frame
C1_Witness ==
    /\ pc = "fred_ret"
    /\ ret.status = "returned"
    /\ Len(requests) >= 2
    /\ ~requests[1].ok
    /\ ret.frame # <<>>

\* C2: the primary URL is requested first and twice before the secondary URL is
\* requested at all, the secondary only after both primary attempts failed, nothing
\* is requested after a success, and a call makes at most 4 requests, after which
\* it can only raise.
C2_PrimaryFirstThenSecondary ==
    InFred =>
        /\ Len(requests) <= 4
        /\ \A i \in DOMAIN requests :
              /\ requests[i].url[2] = series_id
              /\ i <= 2 => requests[i].url[1] = "downloaddata"
              /\ i > 2 => /\ requests[i].url[1] = "fredgraph"
                          /\ ~requests[1].ok /\ ~requests[2].ok
              /\ requests[i].ok => (i = Len(requests) /\ pc = "fred_ret")
        /\ (pc = "in_fred" /\ Len(requests) = 4) => (url_i > 2 /\ AllFailedSoFar)

\* the second attempt on the secondary URL succeeded
C2_Witness ==
    /\ pc = "fred_ret"
    /\ Len(requests) = 4
    /\ requests[4].ok
    /\ requests[4].url[1] = "fredgraph"

\* the number of series the pass has to fetch
Requested == Len(CFG.fred) + (IF CFG.nyfed_tp10 THEN 1 ELSE 0)
RequestedNames == Range(CFG.fred) \cup (IF CFG.nyfed_tp10 THEN {"TP10"} ELSE {})
FailedNames == { fetch_errors[i].name : i \in DOMAIN fetch_errors }

\* C3: every requested series ends in exactly one outcome, a frame or one warning
\* that names it; a failure never stops the pass; after the pass frames plus
\* warnings equals the number of requested series and the table holds no row of a
\* failed series.
C3_OneOutcomePerSeries ==
    /\ Loading => Len(frames) + Len(fetch_errors) =
                     (IF pc \in {"in_tp10", "tp10_ret"} THEN Len(CFG.fred) ELSE sid_i - 1)
    /\ ~Loading =>
          /\ Len(frames) + Len(fetch_errors) = Requested
          /\ FailedNames \subseteq RequestedNames
          /\ Cardinality(FailedNames) = Len(fetch_errors)
          /\ \A i \in DOMAIN fetch_errors : fetch_errors[i].failed = fetch_errors[i].name
          /\ \A k \in 1..Len(frames) : \A j \in DOMAIN frames[k] :
                frames[k][j].Name \in RequestedNames \ FailedNames
    /\ AfterMerge =>
          /\ \A j \in DOMAIN data : data[j].Name \in RequestedNames \ FailedNames
          /\ ui.warning = fetch_errors

\* the first series failed, the two after it were fetched and are in the table
C3_Witness ==
    /\ pc = "resolve"
    /\ Len(fetch_errors) = 1
    /\ fetch_errors[1].name = CFG.fred[1]
    /\ Len(frames) = 2
    /\ {data[j].Name : j \in DOMAIN data} = {CFG.fred[2], "TP10"}

NothingComputed == ind = <<>> /\ dec = <<>> /\ tiles = <<>> /\ rows = <<>> /\ data = <<>>

\* C4: when every requested fetch failed the render shows the "no data" error and
\* stops without computing any tile or signal; when some fetch succeeded the error
\* is not shown.
C4_FatalOnlyWhenAllFailed ==
    /\ ui.error => (pc = "stopped" /\ NothingComputed /\ Len(fetch_errors) = Requested)
    /\ AfterCheck => (ui.error <=> Len(fetch_errors) = Requested)
    /\ pc = "stopped" => ui.error

\* both FRED series and the term premium failed: the render has stopped
C4_Witness ==
    /\ pc = "stopped"
    /\ Len(fetch_errors) = 3
    /\ ui.error

\* C6: every row of the unified table has a date and a value.
C6_TableRowsComplete ==
    /\ \A k \in 1..Len(frames) : \A j \in DOMAIN frames[k] : frames[k][j].Date # NaT
    /\ (pc = "fred_ret" \/ pc = "tp10_ret") /\ ret.status = "returned" =>
          \A j \in DOMAIN ret.frame : ret.frame[j].Date # NaT
    /\ AfterMerge => \A j \in DOMAIN data : data[j].Date # NaT /\ notna(data[j].Value)

\* the merge has dropped a row without a value and kept a row with one
C6_Witness ==
    /\ pc = "resolve"
    /\ Len(data) > 0
    /\ Len(data) < Len(Concat(frames))

\* every response without a header line makes the try block fail
NoHeaderFails == \A seen \in TPSeen : ~seen.hdr => ~seen.o.ok

\* C7: fetch_tp10 requests the candidates in their listed order, each once, stops
\* at the first that parses, raises only after all four have failed, and a response
\* without a line holding both markers is a failure after which the next candidate
\* is tried.
C7_CandidatesInOrderOnce ==
    /\ NoHeaderFails
    /\ InTP10 =>
          /\ Len(requests) <= 4
          /\ \A i \in DOMAIN requests :
                /\ requests[i].url = url_candidates[i]
                /\ requests[i].ok => (i = Len(requests) /\ pc = "tp10_ret"
                                        /\ ret = Returned(requests[i].frame))
          /\ ret.status = "raised" => (Len(requests) = 4 /\ AllFailedSoFar /\ pc = "tp10_ret")
          /\ (pc = "tp10_ret" /\ ret.status = "returned") => SomeOk
          /\ (pc = "in_tp10" /\ last_err = "StopIteration") =>
                (~requests[Len(requests)].ok /\ url_i = Len(requests) + 1)

\* a body without header line on the second candidate, then the third parsed
C7_Witness ==
    /\ pc = "tp10_ret"
    /\ ret.status = "returned"
    /\ Len(requests) = 3
    /\ last_err = "StopIteration"
    /\ ret.frame # <<>>

\* the comparisons of predicate p that Python evaluates: "and" stops at the first
\* false comparison, "or" at the first true one
Evaluated(p) ==
    { i \in DOMAIN p.terms :
        \A j \in 1..(i-1) : IF p.op = "and" THEN EvalTerm(p.terms[j]) ELSE ~EvalTerm(p.terms[j]) }

\* predicate p evaluates a comparison whose input is not-a-number
TouchesNaN(p) == \E i \in Evaluated(p) : isna(Scalar(p.terms[i].x))

\* C5: in signal_for every GREEN or YELLOW predicate that touches a not-a-number
\* input evaluates to false, for every ticker and every mix of present and missing
\* indicators.
C5_NaNPredicateIsFalse ==
    pc = "done" =>
        \A k \in DOMAIN ETF_ROWS :
            \A i \in DOMAIN RuleOf(ETF_ROWS[k]).cascade :
                LET p == RuleOf(ETF_ROWS[k]).cascade[i].pred
                IN TouchesNaN(p) => ~EvalPred(p)

\* the series a scalar of signal_for is computed from
SeriesOf(x) ==
    CASE x = "pmi" -> {"NAPM"}
      [] x = "dxy" -> {"DTWEXBGS"}
      [] x = "wti" -> {"DCOILWTICO"}
      [] x = "oas100" -> {"BAMLH0A0HYM2"}
      [] x = "curve_bps" -> {"DGS10", "DGS2"}
      [] x = "y10d" -> {"DGS10"}
      [] x = "tipsd" -> {"DFII10"}
      [] x = "tp10d" -> {"TP10"}

\* the series the signal of a ticker depends on
SignalDeps(tk) ==
    UNION { UNION { SeriesOf(RuleOf(tk).cascade[i].pred.terms[j].x) :
                      j \in DOMAIN RuleOf(tk).cascade[i].pred.terms } :
              i \in DOMAIN RuleOf(tk).cascade }

\* the series each tile depends on, in the order of the tiles
TileDeps == << {"DGS10"}, {"DGS2"}, {"DGS3MO"}, {"DFII10"}, {"TP10"}, {"DTWEXBGS"},
               {"NAPM"}, {"BAMLH0A0HYM2"}, {"DGS10", "DGS2"}, {"DCOILWTICO"} >>

\* the resolved indicator of a series
IndOf(name) ==
    CASE name = "DGS10" -> ind.y10
      [] name = "DGS2" -> ind.y2
      [] name = "DGS3MO" -> ind.y3m
      [] name = "DFII10" -> ind.tips
      [] name = "TP10" -> ind.tp10
      [] name = "DTWEXBGS" -> ind.dxy
      [] name = "NAPM" -> ind.pmi
      [] name = "BAMLH0A0HYM2" -> ind.oas
      [] name = "DCOILWTICO" -> ind.wti

Missing(name) == SubRows(data, name) = {}

\* the part of C8 about the tiles: a series without data resolves to not-a-number
\* and every tile that depends on it is not-a-number and grey
MissingTilesGrey ==
    /\ \A name \in Range(AllNames) : Missing(name) => isna(IndOf(name))
    /\ \A i \in DOMAIN tiles :
          (\E name \in TileDeps[i] : Missing(name)) => (isna(tiles[i].val) /\ tiles[i].bg = "#EEE")

\* C8: an indicator without data in the unified table propagates as not-a-number,
\* and every tile and every signal that depends on it is shown as unknown, never
\* as GREEN or RED.
C8_MissingShownUnknown ==
    pc = "done" =>
        /\ MissingTilesGrey
        /\ \A k \in DOMAIN rows :
              (\E name \in SignalDeps(rows[k].Ticker) : Missing(name)) =>
                  rows[k].Signal \notin {"GREEN", "RED"}

\* C9: the signal table has exactly one row per ticker of ETF_ROWS, in that order,
\* and every signal is GREEN, YELLOW, RED or SETUP, whatever indicators are present
\* or missing.
C9_ClassificationTotal ==
    pc = "done" =>
        /\ Len(rows) = Len(ETF_ROWS)
        /\ \A k \in DOMAIN rows :
              /\ rows[k].Ticker = ETF_ROWS[k]
              /\ rows[k].Signal \in {"GREEN", "YELLOW", "RED", "SETUP"}

\* signals of all three colours with the PMI and the oil price missing
C9_Witness ==
    /\ pc = "done"
    /\ isna(ind.pmi)
    /\ isna(ind.wti)
    /\ {rows[k].Signal : k \in DOMAIN rows} = {"GREEN", "YELLOW", "RED"}

\* C10: latest_value returns (not-a-number, None) when the table has no row of the
\* name, and otherwise the value and date of a row of that name whose date is the
\* greatest among the rows of that name, wherever that row stands in the table.
C10_LatestByDate ==
    pc = "latest_done" =>
        IF \A i \in DOMAIN lv_df : lv_df[i].Name # lv_name
        THEN lv_out = [value |-> NaN, date |-> None]
        ELSE /\ \E i \in DOMAIN lv_df :
                  /\ lv_df[i].Name = lv_name
                  /\ lv_out = [value |-> lv_df[i].Value, date |-> lv_df[i].Date]
             /\ \A j \in DOMAIN lv_df : lv_df[j].Name = lv_name => lv_df[j].Date <= lv_out.date

\* the most recent row of the name was appended first, an older one last
C10_Witness ==
    /\ pc = "latest_done"
    /\ Len(lv_df) = 3
    /\ lv_df[1].Name = lv_name /\ lv_df[1].Date = 2
    /\ lv_df[3].Name = lv_name /\ lv_df[3].Date = 1
    /\ lv_df[2].Name # lv_name
    /\ lv_out.date = 2
    /\ lv_out.value = lv_df[1].Value

====
